---- MODULE Spec2Model ----
(***************************************************************************)
(* Model of lib/types/hosts.go: the Hosts pattern index (NewHosts, Match)  *)
(* and its nullable JSON adapter NullHosts (NewNullHosts, MarshalJSON,     *)
(* UnmarshalJSON, parseHost).                                              *)
(*                                                                         *)
(* Strings are sequences of characters; a character is a one-letter        *)
(* string, except "KELVIN", which stands for U+212A (KELVIN SIGN), a       *)
(* non-ASCII letter that strings.ToLower maps to the ASCII letter k.       *)
(***************************************************************************)
EXTENDS Integers, Sequences, FiniteSets, TLC

VARIABLES
    pc,      \* position of the driver: which call happened last
    source,  \* argument of the last NewHosts / NewNullHosts call
    hosts,   \* *Hosts returned by NewHosts (Nil when it returned nil)
    herr,    \* error returned by NewHosts / NewNullHosts
    query,   \* argument of the last Match call
    res,     \* *Host returned by the last Match call (Nil when nil)
    n,       \* the NullHosts value under test
    data,    \* argument of the last UnmarshalJSON call
    err,     \* error returned by the last UnmarshalJSON call
    out,     \* bytes returned by the last MarshalJSON call
    orig,    \* the NullHosts value MarshalJSON was called on
    dec,     \* NullHosts decoded from out
    decErr,  \* error of decoding out
    prev,    \* the NullHosts value before the last UnmarshalJSON call
    calls    \* number of UnmarshalJSON calls made so far

vars == <<pc, source, hosts, herr, query, res, n, data, err, out, orig, dec,
          decErr, prev, calls>>

-----------------------------------------------------------------------------
(* Bounds of the model *)

\* largest number of keys of a source map / JSON object
MaxKeys == 3
\* largest number of labels of a generated query hostname
MaxDepth == 3
\* largest number of elements of a JSON array value
MaxItems == 3
\* largest number of UnmarshalJSON calls in a row on one NullHosts
MaxCalls == 2

-----------------------------------------------------------------------------
(* Characters and strings *)

\* a nil pointer, and a nil error
Nil == [isNil |-> TRUE]
NoErr == [kind |-> "none"]

UpperSeq == <<"A","B","C","D","E","F","G","H","I","J","K","L","M",
              "N","O","P","Q","R","S","T","U","V","W","X","Y","Z">>
LowerSeq == <<"a","b","c","d","e","f","g","h","i","j","k","l","m",
              "n","o","p","q","r","s","t","u","v","w","x","y","z">>
DigitSeq == <<"0","1","2","3","4","5","6","7","8","9">>

Range(f) == {f[i] : i \in DOMAIN f}
Upper == Range(UpperSeq)
Lower == Range(LowerSeq)
Digit == Range(DigitSeq)
AlNum == Upper \cup Lower \cup Digit

IndexIn(seq, c) == CHOOSE i \in DOMAIN seq : seq[i] = c

\* unicode.ToLower on one rune: ASCII upper case, and U+212A -> k
ToLowerCh(c) ==
    IF c \in Upper THEN LowerSeq[IndexIn(UpperSeq, c)]
    ELSE IF c = "KELVIN" THEN "k"
    ELSE c

ToUpperCh(c) == IF c \in Lower THEN UpperSeq[IndexIn(LowerSeq, c)] ELSE c

\* strings.ToLower
ToLower(s) == [i \in 1..Len(s) |-> ToLowerCh(s[i])]

\* every way of writing the ASCII letters of s in upper or lower case
RECURSIVE CaseVariants(_)
CaseVariants(s) ==
    IF s = <<>> THEN {<<>>}
    ELSE LET c == Head(s)
             heads == IF c \in Upper \cup Lower
                      THEN {ToLowerCh(c), ToUpperCh(c)} ELSE {c}
         IN {<<h>> \o t : h \in heads, t \in CaseVariants(Tail(s))}

Slice(s, i, j) == IF j < i THEN <<>> ELSE SubSeq(s, i, j)

Positions(s, c) == {i \in 1..Len(s) : s[i] = c}
Max(S) == CHOOSE x \in S : \A y \in S : y <= x
Min(S) == CHOOSE x \in S : \A y \in S : x <= y

\* strings.Split(s, sep) for a one-character separator: always >= 1 field
RECURSIVE Split(_, _)
Split(s, sep) ==
    IF Positions(s, sep) = {} THEN <<s>>
    ELSE LET i == Min(Positions(s, sep))
         IN <<Slice(s, 1, i - 1)>> \o Split(Slice(s, i + 1, Len(s)), sep)

RECURSIVE Reverse(_)
Reverse(s) == IF s = <<>> THEN <<>> ELSE Append(Reverse(Tail(s)), Head(s))

RECURSIVE JoinDots(_)
JoinDots(labels) ==
    IF Len(labels) = 0 THEN <<>>
    ELSE IF Len(labels) = 1 THEN labels[1]
    ELSE labels[1] \o <<".">> \o JoinDots(Tail(labels))

-----------------------------------------------------------------------------
(* The pattern grammar: validHostPattern and isValidHostPattern *)

\* [a-zA-Z0-9] | [a-zA-Z0-9][a-zA-Z0-9\-]*[a-zA-Z0-9]
IsLabel(l) ==
    /\ Len(l) >= 1
    /\ l[1] \in AlNum
    /\ l[Len(l)] \in AlNum
    /\ \A i \in 1..Len(l) : l[i] \in AlNum \cup {"-"}

\* (\*\.?)?
StarPart(x) == x \in {<<>>, <<"*">>, <<"*", ".">>}

\* ((label\.)*label)?
BodyPart(x) ==
    \/ x = <<>>
    \/ LET ls == Split(x, ".") IN \A i \in 1..Len(ls) : IsLabel(ls[i])

\* (:[0-9]{1,5})?
PortPart(x) ==
    \/ x = <<>>
    \/ /\ Len(x) \in 2..6
       /\ x[1] = ":"
       /\ \A i \in 2..Len(x) : x[i] \in Digit

\* the anchored regular expression matches the whole of s
validHostPattern(s) ==
    \E i \in 0..Len(s) : \E j \in i..Len(s) :
        /\ StarPart(Slice(s, 1, i))
        /\ BodyPart(Slice(s, i + 1, j))
        /\ PortPart(Slice(s, j + 1, Len(s)))

InvalidPattern(s) == [kind |-> "invalid host pattern", arg |-> s]

\* nil (NoErr) when the match spans s, else the error naming s
isValidHostPattern(s) ==
    IF validHostPattern(s) THEN NoErr ELSE InvalidPattern(s)

-----------------------------------------------------------------------------
(* The domain pattern index (trieNode).  Its code is not part of hosts.go; *)
(* it is modelled from the specification's section 4.3: a trie over the    *)
(* dot-separated labels, rightmost label nearest the root.  A node is      *)
(* identified by its path from the root.                                   *)

EmptyTrie == [children |-> {}, terminal |-> {}, wild |-> {}]

Prefixes(path) == {SubSeq(path, 1, i) : i \in 1..Len(path)}

\* Insert(pattern): create the nodes of the labels, mark the last one
\* terminal and store the pattern there; a leading "*" label is stored as
\* the wildcard child of the node of the remaining labels.
trieInsert(t, s) ==
    LET labels == Split(s, ".")
        isWild == labels[1] = <<"*">>
        path   == Reverse(IF isWild THEN Tail(labels) ELSE labels)
        entry  == [path |-> path, pattern |-> s]
    IN [children |-> t.children \cup Prefixes(path),
        terminal |-> IF isWild THEN t.terminal ELSE t.terminal \cup {entry},
        wild     |-> IF isWild THEN t.wild \cup {entry} ELSE t.wild]

NotFound == [ok |-> FALSE, match |-> <<>>]
Found(e) == [ok |-> TRUE, match |-> e.pattern]

\* Lookup from node p with the labels r still to consume: the exact-label
\* child first; the wildcard child of p absorbs one or more remaining labels.
RECURSIVE Descend(_, _, _)
Descend(t, p, r) ==
    IF r = <<>>
    THEN IF \E e \in t.terminal : e.path = p
         THEN Found(CHOOSE e \in t.terminal : e.path = p)
         ELSE NotFound
    ELSE LET p2   == Append(p, Head(r))
             deep == IF p2 \in t.children THEN Descend(t, p2, Tail(r))
                     ELSE NotFound
         IN IF deep.ok THEN deep
            ELSE IF \E e \in t.wild : e.path = p
                 THEN Found(CHOOSE e \in t.wild : e.path = p)
                 ELSE NotFound

\* Lookup(hostname) -> (matchedPattern, found)
trieContains(t, s) == Descend(t, <<>>, Reverse(Split(ToLower(s), ".")))

-----------------------------------------------------------------------------
(* Hosts *)

ZeroHost == [IPs |-> <<>>, Port |-> 0]

\* toLowerKeys that copies the map without lower-casing its keys
toLowerKeysVerbatim(src) == {src}

\* Go ranges over a map in an unspecified order, so when several keys
\* lower-case to the same string any of their values may be written last:
\* the set of maps toLowerKeys can return.
toLowerKeys(src) ==
    LET LK == {ToLower(k) : k \in DOMAIN src}
    IN {f \in [LK -> Range(src)] :
            \A lk \in LK : \E k \in DOMAIN src : ToLower(k) = lk /\ src[k] = f[lk]}

\* insert that skips the validation
HostsInsertUnchecked(h, s) ==
    [hosts |-> [h EXCEPT !.n = trieInsert(h.n, ToLower(s))], err |-> NoErr]

\* (t *Hosts) insert: the Hosts after the call and the error returned
HostsInsert(h, s) ==
    LET low == ToLower(s)
        e   == isValidHostPattern(low)
    IN IF e # NoErr THEN [hosts |-> h, err |-> e]
       ELSE [hosts |-> [h EXCEPT !.n = trieInsert(h.n, low)], err |-> NoErr]

\* the loop of NewHosts over the keys not yet visited, in every order
RECURSIVE InsertLoop(_, _)
InsertLoop(h, keys) ==
    IF keys = {} THEN {[hosts |-> h, err |-> NoErr]}
    ELSE UNION {LET r == HostsInsert(h, k)
                IN IF r.err # NoErr THEN {[hosts |-> Nil, err |-> r.err]}
                   ELSE InsertLoop(r.hosts, keys \ {k}) : k \in keys}

\* NewHosts: the possible (hosts, err) results
NewHosts(src) ==
    UNION {InsertLoop([n |-> EmptyTrie, source |-> low], DOMAIN low) :
               low \in toLowerKeys(src)}

\* Match that consults only the side table, never the index
MatchSourceOnly(h, s) ==
    IF ToLower(s) \in DOMAIN h.source THEN h.source[ToLower(s)] ELSE Nil

\* Match that reads the side table under the query instead of the match
MatchByQuery(h, s) ==
    LET low == ToLower(s)
        m   == trieContains(h.n, low)
    IN IF ~m.ok THEN Nil
       ELSE IF low \in DOMAIN h.source THEN h.source[low] ELSE ZeroHost

\* (t *Hosts) Match: Nil for no match, else a copy of the stored Host
Match(h, s) ==
    LET low == ToLower(s)
        m   == trieContains(h.n, low)
    IN IF ~m.ok THEN Nil
       ELSE IF m.match \in DOMAIN h.source THEN h.source[m.match] ELSE ZeroHost

-----------------------------------------------------------------------------
(* NullHosts *)

ZeroNullHosts == [Trie |-> Nil, Valid |-> FALSE]

\* NewNullHosts: the possible (NullHosts, err) results
NewNullHosts(src) ==
    {IF r.err # NoErr THEN [n |-> ZeroNullHosts, err |-> r.err]
     ELSE [n |-> [Trie |-> r.hosts, Valid |-> TRUE], err |-> NoErr] :
        r \in NewHosts(src)}

-----------------------------------------------------------------------------
(* Library conversions used by parseHost and MarshalJSON.  A net.IP is     *)
(* modelled by the address it denotes: a 4-tuple of bytes for IPv4, a      *)
(* 16-tuple for IPv6, and the empty tuple for a nil IP (ParseIP failed).   *)

NilIP == <<>>

DigitVal(c) == IndexIn(DigitSeq, c) - 1

RECURSIVE DecVal(_)
DecVal(ds) ==
    IF ds = <<>> THEN 0
    ELSE DecVal(SubSeq(ds, 1, Len(ds) - 1)) * 10 + DigitVal(ds[Len(ds)])

AllDigits(s) == Len(s) >= 1 /\ \A i \in 1..Len(s) : s[i] \in Digit

\* strconv.Atoi: an optional sign and at least one decimal digit (the
\* strings of the model are too short to overflow an int)
Atoi(s) ==
    LET signed == Len(s) >= 1 /\ s[1] \in {"+", "-"}
        ds     == IF signed THEN Tail(s) ELSE s
    IN IF ~AllDigits(ds) THEN [ok |-> FALSE, val |-> 0]
       ELSE [ok |-> TRUE,
             val |-> IF signed /\ s[1] = "-" THEN 0 - DecVal(ds) ELSE DecVal(ds)]

\* strconv.Itoa
RECURSIVE Itoa(_)
Itoa(i) ==
    IF i < 0 THEN <<"-">> \o Itoa(0 - i)
    ELSE IF i < 10 THEN <<DigitSeq[i + 1]>>
    ELSE Itoa(i \div 10) \o <<DigitSeq[(i % 10) + 1]>>

\* one field of a dotted quad: 1..3 digits, no leading zero, at most 255
IsByteText(f) ==
    /\ AllDigits(f)
    /\ Len(f) <= 3
    /\ Len(f) > 1 => f[1] # "0"
    /\ DecVal(f) <= 255

\* net.ParseIP, for dotted-quad IPv4 text and for IPv6 text of the form ::d
\* with d a digit 1..9; NilIP for any other text (the inputs of the model
\* hold no other text that net.ParseIP accepts)
ParseIP(s) ==
    LET fs == Split(s, ".")
    IN IF Len(fs) = 4 /\ \A i \in 1..4 : IsByteText(fs[i])
       THEN [i \in 1..4 |-> DecVal(fs[i])]
       ELSE IF Len(s) = 3 /\ s[1] = ":" /\ s[2] = ":" /\ s[3] \in Digit \ {"0"}
            THEN [i \in 1..16 |-> IF i = 16 THEN DigitVal(s[3]) ELSE 0]
            ELSE NilIP

\* net.IP.String
IPString(ip) ==
    IF Len(ip) = 4
    THEN Itoa(ip[1]) \o <<".">> \o Itoa(ip[2]) \o <<".">> \o Itoa(ip[3])
             \o <<".">> \o Itoa(ip[4])
    ELSE IF Len(ip) = 16 THEN <<":", ":">> \o Itoa(ip[16])
    ELSE <<"<", "n", "i", "l", ">">>

SplitFailed == [ok |-> FALSE, host |-> <<>>, port |-> <<>>]

\* net.SplitHostPort: the port starts after the last colon; a host holding a
\* colon must be bracketed
SplitHostPort(hp) ==
    LET colons == Positions(hp, ":")
        i      == Max(colons)
        closes == Positions(hp, "]")
        end    == Min(closes)
        brack  == hp[1] = "["
        host   == IF brack THEN Slice(hp, 2, end - 1) ELSE Slice(hp, 1, i - 1)
        j      == IF brack THEN 2 ELSE 1
        k      == IF brack THEN end + 1 ELSE 1
    IN IF colons = {} THEN SplitFailed
       ELSE IF brack /\ (closes = {} \/ end + 1 # i) THEN SplitFailed
       ELSE IF ~brack /\ Positions(host, ":") # {} THEN SplitFailed
       ELSE IF Positions(Slice(hp, j, Len(hp)), "[") # {} THEN SplitFailed
       ELSE IF Positions(Slice(hp, k, Len(hp)), "]") # {} THEN SplitFailed
       ELSE [ok |-> TRUE, host |-> host, port |-> Slice(hp, i + 1, Len(hp))]

\* net.JoinHostPort: brackets a host that holds a colon
JoinHostPort(host, port) ==
    IF Positions(host, ":") # {}
    THEN <<"[">> \o host \o <<"]", ":">> \o port
    ELSE host \o <<":">> \o port

\* Host.String is not part of hosts.go; the specification's section 4.1
\* makes it the inverse of parsing for a single-IP value: ip:port
HostString(v) == JoinHostPort(IPString(v.IPs[1]), Itoa(v.Port))

-----------------------------------------------------------------------------
(* parseHost *)

AtoiError(s) == [kind |-> "strconv.Atoi", arg |-> s]

\* parseHost: the (Host, error) it returns
parseHost(v) ==
    LET sp == SplitHostPort(v)
    IN IF sp.ok
       THEN LET p == Atoi(sp.port)
            IN IF ~p.ok THEN [err |-> AtoiError(sp.port), host |-> ZeroHost]
               ELSE [err |-> NoErr,
                     host |-> [IPs |-> <<ParseIP(sp.host)>>, Port |-> p.val]]
       ELSE [err |-> NoErr, host |-> [IPs |-> <<ParseIP(v)>>, Port |-> 0]]

-----------------------------------------------------------------------------
(* JSON documents.  encoding/json is outside the program: a document is    *)
(* modelled by its structure, a string value by its characters.            *)

JNull == [kind |-> "null"]
\* the null token with white space around it: not the bytes "null"
JPaddedNull == [kind |-> "padded null"]
\* bytes json.Unmarshal rejects for a map[string]interface{}
JMalformed == [kind |-> "malformed"]
JObject(members) == [kind |-> "object", members |-> members]
JStr(s) == [kind |-> "string", str |-> s]
JArr(items) == [kind |-> "array", items |-> items]
JNum == [kind |-> "number"]

JSONError == [kind |-> "json"]
InvalidHostValue(item) == [kind |-> "invalid host value", item |-> item]
ConflictingPorts(k) == [kind |-> "conflicting ports for host", arg |-> k]
InvalidValueType(k) == [kind |-> "invalid host value type for", arg |-> k]

-----------------------------------------------------------------------------
(* MarshalJSON *)

\* the JSON value of one entry with at least one IP
MarshalEntry(v) ==
    IF Len(v.IPs) > 1
    THEN JArr([i \in 1..Len(v.IPs) |->
                 JStr(IF v.Port # 0
                      THEN JoinHostPort(IPString(v.IPs[i]), Itoa(v.Port))
                      ELSE IPString(v.IPs[i]))])
    ELSE JStr(IF v.Port # 0 THEN HostString(v) ELSE IPString(v.IPs[1]))

\* MarshalJSON that emits the entries of several IPs only
MarshalJSONListsOnly(nh) ==
    IF ~nh.Valid THEN JNull
    ELSE LET src == nh.Trie.source
         IN JObject([k \in {x \in DOMAIN src : Len(src[x].IPs) > 1} |->
                        MarshalEntry(src[k])])

\* MarshalJSON: the document it returns (it returns no error)
MarshalJSON(nh) ==
    IF ~nh.Valid THEN JNull
    ELSE LET src == nh.Trie.source
         IN JObject([k \in {x \in DOMAIN src : Len(src[x].IPs) >= 1} |->
                        MarshalEntry(src[k])])

-----------------------------------------------------------------------------
(* UnmarshalJSON *)

Failed(e) == [err |-> e, host |-> ZeroHost]

\* the array loop where a later non-zero port replaces the port
RECURSIVE ArrayLoopLastPort(_, _, _, _)
ArrayLoopLastPort(k, items, ips, port) ==
    IF items = <<>> THEN [err |-> NoErr, host |-> [IPs |-> ips, Port |-> port]]
    ELSE LET item == Head(items)
         IN IF item.kind # "string" THEN Failed(InvalidHostValue(item))
            ELSE LET h == parseHost(item.str)
                 IN IF h.err # NoErr THEN Failed(h.err)
                    ELSE ArrayLoopLastPort(k, Tail(items), ips \o h.host.IPs,
                             IF h.host.Port # 0 THEN h.host.Port ELSE port)

\* case []interface{}: the loop over the elements not yet visited, with the
\* IPs and the port collected so far
RECURSIVE ArrayLoop(_, _, _, _)
ArrayLoop(k, items, ips, port) ==
    IF items = <<>> THEN [err |-> NoErr, host |-> [IPs |-> ips, Port |-> port]]
    ELSE LET item == Head(items)
         IN IF item.kind # "string" THEN Failed(InvalidHostValue(item))
            ELSE LET h == parseHost(item.str)
                 IN IF h.err # NoErr THEN Failed(h.err)
                    ELSE IF port = 0
                    THEN ArrayLoop(k, Tail(items), ips \o h.host.IPs, h.host.Port)
                    ELSE IF h.host.Port # 0 /\ h.host.Port # port
                    THEN Failed(ConflictingPorts(k))
                    ELSE ArrayLoop(k, Tail(items), ips \o h.host.IPs, port)

\* the type switch on the value of key k
DecodeValue(k, v) ==
    IF v.kind = "string" THEN parseHost(v.str)
    ELSE IF v.kind = "array" THEN ArrayLoop(k, v.items, <<>>, 0)
    ELSE Failed(InvalidValueType(k))

\* the loop over jsonSource, in every order of the keys not yet visited
RECURSIVE DecodeLoop(_, _, _)
DecodeLoop(members, keys, src) ==
    IF keys = {} THEN {[err |-> NoErr, source |-> src]}
    ELSE UNION {LET r == DecodeValue(k, members[k])
                IN IF r.err # NoErr THEN {[err |-> r.err, source |-> <<>>]}
                   ELSE DecodeLoop(members, keys \ {k}, src @@ (k :> r.host)) :
                    k \in keys}

\* UnmarshalJSON that resets the receiver whenever it fails
UnmarshalJSONResetting(nh, d) ==
    IF d.kind = "null" THEN {[n |-> ZeroNullHosts, err |-> NoErr]}
    ELSE IF d.kind = "malformed" THEN {[n |-> ZeroNullHosts, err |-> JSONError]}
    ELSE LET members == IF d.kind = "object" THEN d.members ELSE <<>>
         IN UNION {IF s.err # NoErr THEN {[n |-> ZeroNullHosts, err |-> s.err]}
                   ELSE {IF r.err # NoErr THEN [n |-> ZeroNullHosts, err |-> r.err]
                         ELSE [n |-> [Trie |-> r.hosts, Valid |-> TRUE],
                               err |-> NoErr] : r \in NewHosts(s.source)} :
                      s \in DecodeLoop(members, DOMAIN members, <<>>)}

\* UnmarshalJSON that takes null for "nothing to decode"
UnmarshalJSONKeepOnNull(nh, d) ==
    IF d.kind = "null" THEN {[n |-> nh, err |-> NoErr]}
    ELSE IF d.kind = "malformed" THEN {[n |-> nh, err |-> JSONError]}
    ELSE LET members == IF d.kind = "object" THEN d.members ELSE <<>>
         IN UNION {IF s.err # NoErr THEN {[n |-> nh, err |-> s.err]}
                   ELSE {IF r.err # NoErr THEN [n |-> nh, err |-> r.err]
                         ELSE [n |-> [Trie |-> r.hosts, Valid |-> TRUE],
                               err |-> NoErr] : r \in NewHosts(s.source)} :
                      s \in DecodeLoop(members, DOMAIN members, <<>>)}

\* UnmarshalJSON on the receiver nh: the possible (receiver after, err)
UnmarshalJSON(nh, d) ==
    IF d.kind = "null" THEN {[n |-> ZeroNullHosts, err |-> NoErr]}
    ELSE IF d.kind = "malformed" THEN {[n |-> nh, err |-> JSONError]}
    ELSE LET members == IF d.kind = "object" THEN d.members ELSE <<>>
         IN UNION {IF s.err # NoErr THEN {[n |-> nh, err |-> s.err]}
                   ELSE {IF r.err # NoErr THEN [n |-> nh, err |-> r.err]
                         ELSE [n |-> [Trie |-> r.hosts, Valid |-> TRUE],
                               err |-> NoErr] : r \in NewHosts(s.source)} :
                      s \in DecodeLoop(members, DOMAIN members, <<>>)}

-----------------------------------------------------------------------------
(* Inputs of the Hosts specification *)

RECURSIVE SubsetsUpTo(_, _)
SubsetsUpTo(S, k) ==
    IF k = 0 THEN {{}}
    ELSE LET smaller == SubsetsUpTo(S, k - 1)
         IN smaller \cup {T \cup {x} : T \in smaller, x \in S}

IP1 == <<1, 1, 1, 1>>
IP2 == <<2, 2, 2, 2>>
HostA == [IPs |-> <<IP1>>, Port |-> 0]
HostB == [IPs |-> <<IP2>>, Port |-> 80]
ValuePool == {HostA, HostB}

\* keys a caller may put in a source map
ValidKeyPool ==
    { <<"a">>, <<"A">>, <<"b", ".", "a">>,
      <<"*", ".", "a">>, <<"*", ".", "b", ".", "a">>, <<"*">>,
      <<"a", ":", "8", "0">>, <<"*", ".", "a", ":", "8", "0">>,
      <<"1", ".", "2", ".", "3", ".", "4">> }
InvalidKeyPool ==
    { <<"a", " ", "b">>, <<"-", "a">>, <<"a", ".", "*">> }
\* fails the grammar as written, passes it once lower-cased
KelvinKey == <<"KELVIN", ".", "a">>
KeyPool == ValidKeyPool \cup InvalidKeyPool \cup {KelvinKey}

SourceMaps == UNION {[K -> ValuePool] : K \in SubsetsUpTo(KeyPool, MaxKeys)}

QueryLabels == {<<"a">>, <<"b">>}
RECURSIVE LabelSeqs(_)
LabelSeqs(k) ==
    IF k = 0 THEN {<<>>}
    ELSE LET fewer == LabelSeqs(k - 1)
         IN fewer \cup {<<l>> \o ls : l \in QueryLabels, ls \in fewer}
\* hostnames of 1..MaxDepth labels, all ending in the label a
HostnamePool ==
    {JoinDots(ls \o << <<"a">> >>) : ls \in LabelSeqs(MaxDepth - 1)}
        \cup {<<"b">>, <<"b", ".", "a", ":", "8", "0">>}

\* the hostnames Match is called with: the keys of the source map in every
\* case, and the hostname pool
Queries(src) == HostnamePool \cup UNION {CaseVariants(k) : k \in DOMAIN src}

-----------------------------------------------------------------------------
(* The Hosts specification: NewHosts or NewNullHosts once, then Match *)

Init ==
    /\ pc = "start"
    /\ source = <<>>
    /\ hosts = Nil
    /\ herr = NoErr
    /\ query = <<>>
    /\ res = Nil
    /\ n = ZeroNullHosts
    /\ data = Nil
    /\ err = NoErr
    /\ out = Nil
    /\ orig = ZeroNullHosts
    /\ dec = ZeroNullHosts
    /\ decErr = NoErr
    /\ prev = ZeroNullHosts
    /\ calls = 0

NewHostsCall ==
    /\ pc = "start"
    /\ \E src \in SourceMaps : \E r \in NewHosts(src) :
          /\ source' = src
          /\ hosts' = r.hosts
          /\ herr' = r.err
    /\ pc' = "NewHosts"
    /\ UNCHANGED <<query, res, n, data, err, out, orig, dec, decErr, prev, calls>>

NewNullHostsCall ==
    /\ pc = "start"
    /\ \E src \in SourceMaps : \E r \in NewNullHosts(src) :
          /\ source' = src
          /\ n' = r.n
          /\ herr' = r.err
    /\ pc' = "NewNullHosts"
    /\ UNCHANGED <<hosts, query, res, data, err, out, orig, dec, decErr, prev, calls>>

MatchCall ==
    /\ pc = "NewHosts"
    /\ hosts # Nil
    /\ \E q \in Queries(source) :
          /\ query' = q
          /\ res' = Match(hosts, q)
    /\ pc' = "Match"
    /\ UNCHANGED <<source, hosts, herr, n, data, err, out, orig, dec, decErr,
                   prev, calls>>

NextH == NewHostsCall \/ NewNullHostsCall \/ MatchCall

SpecH == Init /\ [][NextH]_vars

-----------------------------------------------------------------------------
(* Vocabulary of the matching claims, stated on strings, not on the index *)

Labels(s) == Split(s, ".")

\* ls ends with the labels suffix and has at least one label before them
ProperlyUnder(ls, suffix) ==
    /\ Len(ls) > Len(suffix)
    /\ SubSeq(ls, Len(ls) - Len(suffix) + 1, Len(ls)) = suffix

IsWildcard(p) == Labels(p)[1] = <<"*">>
\* pattern of the form *.S with S not empty
IsDotWildcard(p) == Len(p) >= 3 /\ p[1] = "*" /\ p[2] = "."
ParentOf(p) == Slice(p, 3, Len(p))

\* pattern p covers hostname h (both lower case)
Covers(p, h) ==
    IF IsWildcard(p) THEN ProperlyUnder(Labels(h), Tail(Labels(p))) ELSE p = h

\* a stored pattern other than the wildcard w that covers h and is more
\* specific than w: h itself, or a wildcard with a longer suffix
MoreSpecificThan(w, h, keys) ==
    \E p \in keys :
        /\ Covers(p, h)
        /\ IsWildcard(p) => Len(Labels(p)) > Len(Labels(w))

AllKeysValid == \A k \in DOMAIN source : validHostPattern(k)
Matched == pc = "Match"
LowQuery == ToLower(query)

-----------------------------------------------------------------------------
(* C1 *)

\* C1 as stated: for a source map of valid patterns that NewHosts accepted,
\* Match on any case permutation of a key P returns the value the source map
\* holds under P.
C1_Original ==
    (Matched /\ AllKeysValid) =>
        \A k \in DOMAIN source :
            query \in CaseVariants(k) => res = source[k]

\* C1 amended: the same, for every key P such that all the keys of the
\* source map that lower-case to the same string as P carry P's value.
C1_MatchReturnsRegistered ==
    (Matched /\ AllKeysValid) =>
        \A k \in DOMAIN source :
            ( /\ query \in CaseVariants(k)
              /\ \A k2 \in DOMAIN source :
                    ToLower(k2) = ToLower(k) => source[k2] = source[k] )
            => res = source[k]

C1_Witness ==
    /\ Matched
    /\ AllKeysValid
    /\ <<"*", ".", "a", ":", "8", "0">> \in DOMAIN source
    /\ <<"A">> \in DOMAIN source
    /\ <<"a">> \notin DOMAIN source
    /\ query = <<"*", ".", "A", ":", "8", "0">>
    /\ res = source[<<"*", ".", "a", ":", "8", "0">>]

-----------------------------------------------------------------------------
(* C2 *)

\* C2 as stated: with *.S stored under value V, Match on any hostname of one
\* or more labels followed by .S returns V, and Match on S returns absent
\* unless S is itself stored.
C2_Original ==
    Matched =>
        \A w \in DOMAIN hosts.source :
            IsDotWildcard(w) =>
                /\ ProperlyUnder(Labels(LowQuery), Labels(ParentOf(w)))
                      => res = hosts.source[w]
                /\ (LowQuery = ParentOf(w) /\ LowQuery \notin DOMAIN hosts.source)
                      => res = Nil

\* C2 amended: with *.S stored under value V, Match on a hostname of one or
\* more labels followed by .S returns V unless a more specific stored pattern
\* covers that hostname (the hostname itself, or a wildcard with a longer
\* suffix); Match on S returns absent unless a stored pattern covers S (S
\* itself, or a wildcard with a shorter suffix).
C2_WildcardAbsorbs ==
    Matched =>
        \A w \in DOMAIN hosts.source :
            IsDotWildcard(w) =>
                /\ ( /\ ProperlyUnder(Labels(LowQuery), Labels(ParentOf(w)))
                     /\ ~MoreSpecificThan(w, LowQuery, DOMAIN hosts.source) )
                      => res = hosts.source[w]
                /\ ( /\ LowQuery = ParentOf(w)
                     /\ \A p \in DOMAIN hosts.source : ~Covers(p, LowQuery) )
                      => res = Nil

C2_Witness ==
    /\ Matched
    /\ <<"*", ".", "a">> \in DOMAIN hosts.source
    /\ <<"b", ".", "a">> \in DOMAIN hosts.source
    /\ query = <<"b", ".", "b", ".", "a">>
    /\ res = hosts.source[<<"*", ".", "a">>]
    /\ res # hosts.source[<<"b", ".", "a">>]

-----------------------------------------------------------------------------
(* C3 *)

\* C3 as stated: with S stored under V1 and *.S under V2 # V1, Match(S) is
\* V1 and Match of any proper subdomain of S is V2; a hostname that equals a
\* stored exact pattern resolves to that pattern's value.
C3_Original ==
    Matched =>
        /\ \A w \in DOMAIN hosts.source :
              ( /\ IsDotWildcard(w)
                /\ ParentOf(w) \in DOMAIN hosts.source
                /\ hosts.source[ParentOf(w)] # hosts.source[w] )
              => /\ LowQuery = ParentOf(w) => res = hosts.source[ParentOf(w)]
                 /\ ProperlyUnder(Labels(LowQuery), Labels(ParentOf(w)))
                       => res = hosts.source[w]
        /\ (LowQuery \in DOMAIN hosts.source /\ ~IsWildcard(LowQuery))
              => res = hosts.source[LowQuery]

\* C3 amended: as stated, except that Match of a proper subdomain of S is V2
\* only when no more specific stored pattern covers that subdomain.
C3_ExactBeforeWildcard ==
    Matched =>
        /\ \A w \in DOMAIN hosts.source :
              ( /\ IsDotWildcard(w)
                /\ ParentOf(w) \in DOMAIN hosts.source
                /\ hosts.source[ParentOf(w)] # hosts.source[w] )
              => /\ LowQuery = ParentOf(w) => res = hosts.source[ParentOf(w)]
                 /\ ( /\ ProperlyUnder(Labels(LowQuery), Labels(ParentOf(w)))
                      /\ ~MoreSpecificThan(w, LowQuery, DOMAIN hosts.source) )
                       => res = hosts.source[w]
        /\ (LowQuery \in DOMAIN hosts.source /\ ~IsWildcard(LowQuery))
              => res = hosts.source[LowQuery]

C3_Witness ==
    /\ Matched
    /\ <<"*", ".", "a">> \in DOMAIN hosts.source
    /\ <<"a">> \in DOMAIN hosts.source
    /\ hosts.source[<<"a">>] # hosts.source[<<"*", ".", "a">>]
    /\ query = <<"A">>
    /\ res = hosts.source[<<"a">>]

-----------------------------------------------------------------------------
(* C4 *)

Constructed == pc \in {"NewHosts", "NewNullHosts"}
NothingBuilt ==
    /\ herr.kind = "invalid host pattern"
    /\ pc = "NewHosts" => hosts = Nil
    /\ pc = "NewNullHosts" => n = ZeroNullHosts
Built == IF pc = "NewHosts" THEN hosts ELSE n.Trie

\* every key of the side table is stored in the index under itself
AllInserted(h) ==
    \A k \in DOMAIN h.source :
        LET m == trieContains(h.n, k) IN m.ok /\ m.match = k

\* C4 as stated: a source map with a key that fails the grammar yields an
\* invalid-pattern error and no Host Set; a Host Set is returned only when
\* every key passed validation and was inserted.
C4_Original ==
    Constructed =>
        /\ (\E k \in DOMAIN source : ~validHostPattern(k)) => NothingBuilt
        /\ herr = NoErr =>
              /\ \A k \in DOMAIN source : validHostPattern(k)
              /\ AllInserted(Built)

\* C4 amended: the key that decides is the lower-cased key: a source map with
\* a key whose lower-cased form fails the grammar yields an invalid-pattern
\* error and no Host Set; a Host Set is returned only when every lower-cased
\* key passed validation and was inserted.
C4_AllOrNothing ==
    Constructed =>
        /\ (\E k \in DOMAIN source : ~validHostPattern(ToLower(k))) => NothingBuilt
        /\ herr = NoErr =>
              /\ \A k \in DOMAIN source : validHostPattern(ToLower(k))
              /\ Built # Nil
              /\ DOMAIN Built.source = {ToLower(k) : k \in DOMAIN source}
              /\ AllInserted(Built)
        /\ herr # NoErr => NothingBuilt

C4_Witness ==
    /\ pc = "NewNullHosts"
    /\ <<"a">> \in DOMAIN source
    /\ <<"*", ".", "a">> \in DOMAIN source
    /\ <<"-", "a">> \in DOMAIN source
    /\ herr = InvalidPattern(<<"-", "a">>)
    /\ n = ZeroNullHosts

-----------------------------------------------------------------------------
(* Inputs of the NullHosts specification *)

IP6 == [i \in 1..16 |-> IF i = 16 THEN 1 ELSE 0]
HostC == [IPs |-> <<IP6>>, Port |-> 0]
HostMany == [IPs |-> <<IP1, IP2>>, Port |-> 80]
JValuePool == {HostA, HostB, HostC, HostMany, ZeroHost}
JSourceKeys == { <<"A">>, <<"*", ".", "a">>, <<"b", ".", "a", ":", "8", "0">> }
JSourceMaps ==
    UNION {[K -> JValuePool] : K \in SubsetsUpTo(JSourceKeys, MaxKeys)}

Addr1 == <<"1", ".", "1", ".", "1", ".", "1">>
Addr2 == <<"2", ".", "2", ".", "2", ".", "2">>
WithPort(a, p) == a \o <<":">> \o p
P80 == <<"8", "0">>
P81 == <<"8", "1">>

\* address strings of array elements
ItemStrings ==
    { Addr1, WithPort(Addr2, P80), WithPort(Addr1, P81), WithPort(Addr2, <<"0">>),
      WithPort(Addr1, <<"x">>) }
\* address strings of single values
AddressStrings ==
    ItemStrings \cup
    { Addr2,
      <<"a", ".", "b">>,
      WithPort(<<"a", ".", "b">>, P80),
      WithPort(Addr1, <<"7", "0", "0", "0", "0">>),
      WithPort(Addr1, <<"-", "1">>),
      <<":", ":", "1">>,
      WithPort(<<"[", ":", ":", "1", "]">>, P80),
      <<"1", ".", "1", ".", "1">> }

ItemPool == {JStr(s) : s \in ItemStrings} \cup {JNum}
RECURSIVE SeqsUpTo(_, _)
SeqsUpTo(S, k) ==
    IF k = 0 THEN {<<>>}
    ELSE LET shorter == SeqsUpTo(S, k - 1)
         IN shorter \cup {<<x>> \o s : x \in S, s \in shorter}
ArrayPool == {JArr(s) : s \in SeqsUpTo(ItemPool, MaxItems)}

JValues == {JStr(s) : s \in AddressStrings} \cup ArrayPool \cup {JNum}
GoodArray == JArr(<<JStr(Addr1), JStr(WithPort(Addr2, P80))>>)
ConflictArray == JArr(<<JStr(WithPort(Addr2, P80)), JStr(WithPort(Addr1, P81))>>)
SmallJValues == {JStr(Addr1), JNum, GoodArray, ConflictArray}

JKeyPool == { <<"a">>, <<"A">>, <<"*", ".", "a">>, <<"a", " ", "b">> }

\* one-key objects with any value, and objects of several keys
DocPool ==
    {JObject(m) : m \in UNION {[{k} -> JValues] : k \in JKeyPool}}
      \cup {JObject(m) : m \in UNION {[K -> SmallJValues] :
                                   K \in SubsetsUpTo(JKeyPool, MaxKeys)}}

OneKey(k, v) == JObject(k :> v)
\* the documents of the runs of several calls
SmallDocPool ==
    { JNull, JPaddedNull, JMalformed,
      OneKey(<<"a">>, JStr(Addr1)),
      OneKey(<<"A">>, GoodArray),
      OneKey(<<"a">>, JNum),
      OneKey(<<"a", " ", "b">>, JStr(Addr1)),
      OneKey(<<"a">>, JStr(WithPort(Addr1, <<"x">>))),
      OneKey(<<"a">>, ConflictArray) }

-----------------------------------------------------------------------------
(* The NullHosts specification: a NullHosts is the zero value or built by  *)
(* NewNullHosts, decoded into up to MaxCalls times, then encoded, and the  *)
(* bytes decoded into a fresh NullHosts.                                   *)

NewNullHostsSmall ==
    /\ pc = "start"
    /\ \E src \in JSourceMaps : \E r \in NewNullHosts(src) :
          /\ source' = src
          /\ n' = r.n
          /\ herr' = r.err
    /\ pc' = "NewNullHosts"
    /\ UNCHANGED <<hosts, query, res, data, err, out, orig, dec, decErr, prev, calls>>

\* UnmarshalJSON on the value under test, one call of a run of calls (a run
\* goes on only after a document of SmallDocPool)
UnmarshalJSONCall ==
    /\ pc \in {"start", "NewNullHosts", "UnmarshalJSON"}
    /\ calls < MaxCalls
    /\ calls > 0 => data \in SmallDocPool
    /\ \E d \in SmallDocPool : \E r \in UnmarshalJSON(n, d) :
          /\ data' = d
          /\ n' = r.n
          /\ err' = r.err
    /\ prev' = n
    /\ calls' = calls + 1
    /\ pc' = "UnmarshalJSON"
    /\ UNCHANGED <<source, hosts, herr, query, res, out, orig, dec, decErr>>

\* UnmarshalJSON on the zero value, with any document
UnmarshalJSONDoc ==
    /\ pc = "start"
    /\ \E d \in DocPool : \E r \in UnmarshalJSON(n, d) :
          /\ data' = d
          /\ n' = r.n
          /\ err' = r.err
    /\ prev' = n
    /\ calls' = calls + 1
    /\ pc' = "UnmarshalJSON"
    /\ UNCHANGED <<source, hosts, herr, query, res, out, orig, dec, decErr>>

MarshalJSONCall ==
    /\ pc \in {"start", "NewNullHosts", "UnmarshalJSON"}
    /\ out' = MarshalJSON(n)
    /\ orig' = n
    /\ pc' = "MarshalJSON"
    /\ UNCHANGED <<source, hosts, herr, query, res, n, data, err, dec, decErr,
                   prev, calls>>

\* UnmarshalJSON of the bytes MarshalJSON returned, on a fresh NullHosts
DecodeEncoded ==
    /\ pc = "MarshalJSON"
    /\ \E r \in UnmarshalJSON(ZeroNullHosts, out) :
          /\ dec' = r.n
          /\ decErr' = r.err
    /\ pc' = "DecodeEncoded"
    /\ UNCHANGED <<source, hosts, herr, query, res, n, data, err, out, orig,
                   prev, calls>>

NextJ ==
    \/ NewNullHostsSmall
    \/ UnmarshalJSONCall
    \/ UnmarshalJSONDoc
    \/ MarshalJSONCall
    \/ DecodeEncoded

SpecJ == Init /\ [][NextJ]_vars

-----------------------------------------------------------------------------
(* Vocabulary of the decoding claims, stated on the document *)

Decoded == pc = "UnmarshalJSON"
DecodedObject == Decoded /\ data.kind = "object"

\* an array all of whose elements are strings parseHost accepts
AddressArray(v) ==
    /\ v.kind = "array"
    /\ \A i \in 1..Len(v.items) :
          v.items[i].kind = "string" /\ parseHost(v.items[i].str).err = NoErr

PortAt(v, i) == parseHost(v.items[i].str).host.Port
NonZeroPorts(v) == {i \in 1..Len(v.items) : PortAt(v, i) # 0}
FirstPort(v) ==
    IF NonZeroPorts(v) = {} THEN 0 ELSE PortAt(v, Min(NonZeroPorts(v)))
\* a later element carries a non-zero port different from the first one
HasConflict(v) == \E j \in NonZeroPorts(v) : PortAt(v, j) # FirstPort(v)
MergedIPs(v) == [i \in 1..Len(v.items) |-> parseHost(v.items[i].str).host.IPs[1]]

\* the value of a key decodes without error
DecodesAlone(v) ==
    \/ v.kind = "string" /\ parseHost(v.str).err = NoErr
    \/ AddressArray(v) /\ ~HasConflict(v)

OnlyKeyOfItsCase(k, keys) == \A k2 \in keys : ToLower(k2) = ToLower(k) => k2 = k

-----------------------------------------------------------------------------
(* C5 *)

\* C5: for a key k whose value is an array of address strings, a
\* conflicting-ports error naming k is returned only if a later element
\* carries a non-zero port different from the first non-zero port; if one
\* does, the call fails, and with that very error whenever the values of the
\* other keys decode; and when the call succeeds the value stored under k
\* holds the IPs of all elements in array order and the first non-zero port.
C5_ArrayPorts ==
    DecodedObject =>
        \A k \in DOMAIN data.members :
            LET v == data.members[k] IN
            AddressArray(v) =>
                /\ err = ConflictingPorts(k) => HasConflict(v)
                /\ HasConflict(v) => (err # NoErr /\ n = prev)
                /\ ( /\ HasConflict(v)
                     /\ \A k2 \in DOMAIN data.members \ {k} :
                           DecodesAlone(data.members[k2]) )
                      => err = ConflictingPorts(k)
                /\ (err = NoErr /\ OnlyKeyOfItsCase(k, DOMAIN data.members))
                      => n.Trie.source[ToLower(k)] =
                             [IPs |-> MergedIPs(v), Port |-> FirstPort(v)]

C5_Witness ==
    /\ Decoded
    /\ data = OneKey(<<"A">>, JArr(<<JStr(Addr1), JStr(WithPort(Addr2, P80)),
                                     JStr(WithPort(Addr1, P81))>>))
    /\ err = ConflictingPorts(<<"A">>)

-----------------------------------------------------------------------------
(* C6 *)

\* the IP portion of s is no IP literal, or its port portion no integer
BadAddress(s) ==
    LET sp == SplitHostPort(s)
    IN IF sp.ok THEN ParseIP(sp.host) = NilIP \/ ~Atoi(sp.port).ok
       ELSE ParseIP(s) = NilIP

StoredHosts(nh) == {nh.Trie.source[k] : k \in DOMAIN nh.Trie.source}

\* C6: decoding an address string whose IP portion is not an IP literal, or
\* whose port portion is not a decimal integer, fails; no successful decode
\* stores an Address Value with a nil IP.
C6_Claim ==
    DecodedObject =>
        /\ (\E k \in DOMAIN data.members :
               data.members[k].kind = "string" /\ BadAddress(data.members[k].str))
              => err # NoErr
        /\ err = NoErr =>
              \A h \in StoredHosts(n) : \A i \in 1..Len(h.IPs) : h.IPs[i] # NilIP

-----------------------------------------------------------------------------
(* C7 *)

SingleIPNoPort(nh) ==
    /\ nh.Valid
    /\ \A h \in StoredHosts(nh) : Len(h.IPs) = 1 /\ h.Port = 0

\* C7: encoding a present NullHosts whose entries have exactly one IP and no
\* port, then decoding the bytes, succeeds and yields a present NullHosts
\* with the same patterns whose Match returns, for every stored pattern, the
\* Host (same IPs, same Port) the original returns.
C7_RoundTrip ==
    (pc = "DecodeEncoded" /\ SingleIPNoPort(orig)) =>
        /\ decErr = NoErr
        /\ dec.Valid
        /\ DOMAIN dec.Trie.source = DOMAIN orig.Trie.source
        /\ \A p \in DOMAIN orig.Trie.source :
              /\ Match(orig.Trie, p) = orig.Trie.source[p]
              /\ Match(dec.Trie, p) = Match(orig.Trie, p)

C7_Witness ==
    /\ pc = "DecodeEncoded"
    /\ calls = 0
    /\ source = (<<"A">> :> HostA) @@ (<<"*", ".", "a">> :> HostC)
    /\ orig = n
    /\ SingleIPNoPort(orig)
    /\ dec.Valid
    /\ Match(dec.Trie, <<"a">>) = HostA
    /\ Match(dec.Trie, <<"b", ".", "a">>) = HostC

-----------------------------------------------------------------------------
(* C8 *)

\* C8: UnmarshalJSON of null sets the NullHosts to absent (Valid false, Trie
\* nil) whatever it was before; MarshalJSON of an absent NullHosts returns
\* null; and decoding that gives an absent NullHosts.
C8_AbsentIsNull ==
    /\ (Decoded /\ data = JNull) => (n = ZeroNullHosts /\ err = NoErr)
    /\ (pc \in {"MarshalJSON", "DecodeEncoded"} /\ ~orig.Valid) => out = JNull
    /\ (pc = "DecodeEncoded" /\ ~orig.Valid) =>
          (dec = ZeroNullHosts /\ decErr = NoErr)

C8_Witness ==
    /\ pc = "DecodeEncoded"
    /\ data = JNull
    /\ prev.Valid
    /\ orig = ZeroNullHosts
    /\ out = JNull
    /\ dec = ZeroNullHosts

-----------------------------------------------------------------------------
(* C9 *)

Absent(nh) == ~nh.Valid /\ nh.Trie = Nil
Present(nh) ==
    /\ nh.Valid
    /\ nh.Trie # Nil
    /\ \A k \in DOMAIN nh.Trie.source : validHostPattern(k)
    /\ AllInserted(nh.Trie)

\* C9: after any run of UnmarshalJSON calls on a zero-value or
\* NewNullHosts-built NullHosts the value is absent or present with every
\* side-table key validated and inserted, and a failing call leaves Trie and
\* Valid as they were before it.
C9_NoPartialState ==
    /\ Absent(n) \/ Present(n)
    /\ (Decoded /\ err # NoErr) => n = prev

C9_Witness ==
    /\ Decoded
    /\ calls = 2
    /\ Present(prev)
    /\ err = InvalidPattern(<<"a", " ", "b">>)
    /\ n = prev

-----------------------------------------------------------------------------
(* C10 *)

\* C10: every Address Value stored by a successful UnmarshalJSON has its
\* Port in 0..65535.
C10_Claim ==
    (Decoded /\ err = NoErr /\ n.Valid) =>
        \A h \in StoredHosts(n) : h.Port \in 0..65535

====
